---------------------------- MODULE Spec2Model ----------------------------
(***************************************************************************)
(* The transaction analytics of accounts/data_analysis.py and the views of *)
(* accounts/views.py that feed it.                                         *)
(*                                                                         *)
(* The record source is the flat file data/transactions.csv.  An amount is *)
(* an integer number of rupees (the float arithmetic of pandas is modelled *)
(* exactly on integers; means and correlations are kept as fractions).     *)
(* A timestamp is a day number counted from 2024-01-29; every date of the  *)
(* model lies in 2024, so the month number orders the 'YYYY-MM' buckets as *)
(* the string comparison of pandas does.                                   *)
(***************************************************************************)
EXTENDS Integers, Sequences, FiniteSets, TLC

VARIABLES
    source,   \* the file data/transactions.csv
    now,      \* the server clock (auto_now_add), a day number
    call,     \* the function that ran last
    raw,      \* the frame its pd.read_csv returned (the local df before cleaning)
    df,       \* the local df after to_datetime / dropna
    ret,      \* the value it returned, or the exception it raised
    build,    \* what the installed matplotlib does with a pie of zero wedges
    db,       \* the table of Transaction objects
    request   \* the report request in flight, and the reads of the last one

vars == <<source, now, call, raw, df, ret, build, db, request>>

(***************************************************************************)
(* Bounds of the exploration.                                              *)
(***************************************************************************)
MaxInitRows == 2     \* rows of a file found on disk
MaxRows == 3         \* rows of the file under Spec
MaxMonthRows == 5    \* rows of the file under SpecMonths
MaxDayRows == 9      \* rows of the file under SpecDays
MaxTopRows == 11     \* rows of the file under SpecTop
MaxInsightRows == 3  \* rows of the file under SpecInsights
MaxMirrorRows == 3   \* rows of the file under SpecMirror
MaxRaceRows == 2     \* rows of the file under SpecRace
MaxIds == 4          \* ids the table hands out under SpecMirror and SpecRace

(***************************************************************************)
(* Cells of the CSV file as pandas reads them.                             *)
(***************************************************************************)
NaN == "NaN"   \* a cell read as missing: '', 'NA', 'NaN', 'null', ...

Num(n) == [kind |-> "num", val |-> n]
MissingAmount == [kind |-> "na", val |-> 0]
TextAmount == [kind |-> "text", val |-> 0]       \* e.g. 'abc'
Date(d) == [kind |-> "date", day |-> d]
BadDate == [kind |-> "text", day |-> 0]          \* to_datetime(errors='coerce') gives NaT

expected_cols == {"product_name", "category", "expenditure", "date_added"}

\* The categories of the model in the order pandas sorts group keys.
Categories == <<"Food", "Rent">>

day_order == <<"Monday", "Tuesday", "Wednesday", "Thursday", "Friday",
               "Saturday", "Sunday">>

(***************************************************************************)
(* Calendar: dt.month, dt.day, dt.weekday, dt.day_name() of a day number.  *)
(***************************************************************************)
DaysInMonth == <<31, 29, 31, 30, 31, 30, 31, 31, 30, 31, 30, 31>>
EpochDayOfYear == 4 * 7      \* 2024-01-29, a Monday; 2024-01-01 is a Monday

RECURSIVE MonthFrom(_, _)
MonthFrom(m, k) ==
    IF k < DaysInMonth[m] THEN [month |-> m, day |-> k + 1]
    ELSE MonthFrom(m + 1, k - DaysInMonth[m])

month_num(d) == MonthFrom(1, EpochDayOfYear + d).month
day_num(d) == MonthFrom(1, EpochDayOfYear + d).day
weekday(d) == (EpochDayOfYear + d) % 7
day_name(d) == day_order[weekday(d) + 1]

(***************************************************************************)
(* Small helpers.                                                          *)
(***************************************************************************)
RECURSIVE SumTo(_, _)
SumTo(s, n) == IF n = 0 THEN 0 ELSE s[n] + SumTo(s, n - 1)

SumSeq(s) == SumTo(s, Len(s))

RECURSIVE Ascending(_)
Ascending(S) ==
    IF S = {} THEN <<>>
    ELSE LET m == CHOOSE x \in S : \A y \in S : x <= y
         IN  <<m>> \o Ascending(S \ {m})

Range(s) == {s[i] : i \in 1..Len(s)}
Amount(r) == r.expenditure.val
\* A sequence built element by element, as a tuple.
Tuple(s) == s \o <<>>

Amounts(rows) == Tuple([i \in 1..Len(rows) |-> Amount(rows[i])])
Day(r) == r.date_added.day
Max(S) == CHOOSE x \in S : \A y \in S : y <= x
Min(S) == CHOOSE x \in S : \A y \in S : x <= y

(***************************************************************************)
(* pd.read_csv: the frame of a file, or the exception it raises.           *)
(***************************************************************************)
NoFrame == [columns |-> {}, rows |-> <<>>, dtype |-> "none"]

\* The default na_values of read_csv that a form can submit as a name.
na_values == {"", "NA", "N/A", "NaN", "nan", "null", "NULL", "None", "n/a"}

Indexed(rows) ==
    Tuple([i \in 1..Len(rows) |->
             [index |-> i - 1,
              product_name |-> IF rows[i].product_name \in na_values
                               THEN NaN ELSE rows[i].product_name,
              category |-> rows[i].category,
              expenditure |-> rows[i].expenditure,
              date_added |-> rows[i].date_added]])

\* The expenditure column is float64 unless a cell is not a number; then the
\* whole column is object and its cells are strings.
ExpenditureDtype(rows) ==
    IF \E i \in 1..Len(rows) : rows[i].expenditure.kind = "text"
    THEN "object" ELSE "float64"

read_csv_error(src) ==
    CASE src.state = "missing" -> "FileNotFoundError"
      [] src.state = "zero_byte" -> "EmptyDataError"
      [] src.ragged -> "ParserError"
      [] OTHER -> "none"

read_csv(src) ==
    [columns |-> src.columns,
     rows |-> Indexed(src.rows),
     dtype |-> ExpenditureDtype(src.rows)]

\* DataFrame.empty
empty(frame) == frame.rows = <<>>

(***************************************************************************)
(* Cleaning: to_datetime(errors='coerce') and dropna on date_added and     *)
(* expenditure.                                                            *)
(***************************************************************************)
isna_date(r) == r.date_added.kind # "date"
isna_expenditure(r) == r.expenditure.kind = "na"

dropna(frame) ==
    [frame EXCEPT !.rows =
        SelectSeq(frame.rows, LAMBDA r : ~isna_date(r) /\ ~isna_expenditure(r))]

(***************************************************************************)
(* Aggregations of the working frame.  groupby and value_counts leave out  *)
(* the rows whose key is NaN and return the keys sorted; unique() keeps    *)
(* NaN as a value of its own.                                              *)
(***************************************************************************)
GroupKeys(rows) ==
    SelectSeq(Categories, LAMBDA c : \E i \in 1..Len(rows) : rows[i].category = c)

GroupRows(rows, c) == SelectSeq(rows, LAMBDA r : r.category = c)

\* df.groupby('category')['expenditure'].sum()
category_sum(rows) ==
    LET keys == GroupKeys(rows)
    IN  Tuple([i \in 1..Len(keys) |->
                 [category |-> keys[i],
                  expenditure |-> SumSeq(Amounts(GroupRows(rows, keys[i])))]])

\* Series.idxmax(): the label of the first maximum
idxmax(series) ==
    LET top == Max({series[i].expenditure : i \in 1..Len(series)})
        i == Min({j \in 1..Len(series) : series[j].expenditure = top})
    IN  series[i].category

\* line 72; sort_values only orders the mapping, which is kept as a function
category_totals(rows) ==
    [c \in Range(GroupKeys(rows)) |-> SumSeq(Amounts(GroupRows(rows, c)))]

\* line 273: df['category'].value_counts()
category_counts(rows) ==
    [c \in Range(GroupKeys(rows)) |-> Len(GroupRows(rows, c))]

\* cumsum without the carry: each month keeps its own total
cumsum_without_carry(s) == s

\* Series.cumsum()
RECURSIVE cumsum(_)
cumsum(s) ==
    IF s = <<>> THEN <<>>
    ELSE LET p == cumsum(SubSeq(s, 1, Len(s) - 1))
         IN  Append(p, (IF p = <<>> THEN 0 ELSE p[Len(p)]) + s[Len(s)])

\* lines 89-90: monthly totals by month bucket, and their running total
monthly_data(rows) ==
    LET months == Ascending({month_num(Day(rows[i])) : i \in 1..Len(rows)})
        totals == Tuple([k \in 1..Len(months) |->
                     SumSeq(Amounts(SelectSeq(rows,
                         LAMBDA r : month_num(Day(r)) = months[k])))])
        running == cumsum(totals)
    IN  Tuple([k \in 1..Len(months) |->
                 [month |-> months[k],
                  expenditure |-> totals[k],
                  expenditure_cumsum |-> running[k]]])

\* lines 178-186: the day-of-week x category pivot
NoPivot == [produced |-> FALSE, index |-> <<>>, columns |-> <<>>, cell |-> <<>>]

day_category(rows) ==
    IF /\ Cardinality({day_name(Day(rows[i])) : i \in 1..Len(rows)}) > 1
       /\ Cardinality({rows[i].category : i \in 1..Len(rows)}) > 1
    THEN LET grouped == SelectSeq(rows, LAMBDA r : r.category # NaN)
             days == {day_name(Day(grouped[i])) : i \in 1..Len(grouped)}
             cats == GroupKeys(grouped)
         IN  [produced |-> TRUE,
              index |-> SelectSeq(day_order, LAMBDA d : d \in days),
              columns |-> cats,
              cell |-> [d \in days, c \in Range(cats) |->
                          SumSeq(Amounts(SelectSeq(grouped,
                              LAMBDA r : day_name(Day(r)) = d /\ r.category = c)))]]
    ELSE NoPivot

(***************************************************************************)
(* rolling(window=7, min_periods=1).mean(): pandas slides the window,      *)
(* adding the entering value and removing the leaving one.                 *)
(***************************************************************************)
window == 7
min_periods == 1

\* a window that never drops the value leaving it
RECURSIVE RollSum_keeps_leaving(_, _)
RollSum_keeps_leaving(x, i) ==
    IF i = 0 THEN 0 ELSE RollSum_keeps_leaving(x, i - 1) + x[i]

RECURSIVE RollSum(_, _)
RollSum(x, i) ==
    IF i = 0 THEN 0
    ELSE RollSum(x, i - 1) + x[i] - (IF i > window THEN x[i - window] ELSE 0)

RollObs(i) == IF i < window THEN i ELSE window

rolling_mean(x) ==
    Tuple([i \in 1..Len(x) |->
             [nan |-> RollObs(i) < min_periods, num |-> RollSum(x, i),
              den |-> RollObs(i)]])

\* lines 197-201: daily totals with their moving average
NoTable == [produced |-> FALSE, rows |-> <<>>]
ma_rows == 7     \* line 197: len(df) > 7

\* the table gated on the number of distinct days instead of rows
daily_spending_by_days(rows) ==
    LET dates == Ascending({Day(rows[i]) : i \in 1..Len(rows)})
        totals == Tuple([k \in 1..Len(dates) |->
                     SumSeq(Amounts(SelectSeq(rows, LAMBDA r : Day(r) = dates[k])))])
        ma == rolling_mean(totals)
    IN  IF Len(dates) > ma_rows
        THEN [produced |-> TRUE,
              rows |-> Tuple([k \in 1..Len(dates) |->
                          [date |-> dates[k], expenditure |-> totals[k],
                           ma_7 |-> ma[k]]])]
        ELSE NoTable

daily_spending(rows) ==
    IF Len(rows) > ma_rows
    THEN LET dates == Ascending({Day(rows[i]) : i \in 1..Len(rows)})
             totals == Tuple([k \in 1..Len(dates) |->
                          SumSeq(Amounts(SelectSeq(rows, LAMBDA r : Day(r) = dates[k])))])
             ma == rolling_mean(totals)
         IN  [produced |-> TRUE,
              rows |-> Tuple([k \in 1..Len(dates) |->
                          [date |-> dates[k], expenditure |-> totals[k],
                           ma_7 |-> ma[k]]])]
    ELSE NoTable

(***************************************************************************)
(* DataFrame.nlargest(n, 'expenditure'), keep='first': the n largest rows, *)
(* descending, equal amounts in the order of the frame.                    *)
(***************************************************************************)
Without(s, i) == SubSeq(s, 1, i - 1) \o SubSeq(s, i + 1, Len(s))

\* nlargest with keep='last': of equal amounts the later row comes first
RECURSIVE nlargest_keep_last(_, _)
nlargest_keep_last(n, rows) ==
    IF n = 0 \/ rows = <<>> THEN <<>>
    ELSE LET top == Max({Amount(rows[i]) : i \in 1..Len(rows)})
             i == Max({j \in 1..Len(rows) : Amount(rows[j]) = top})
         IN  <<rows[i]>> \o nlargest_keep_last(n - 1, Without(rows, i))

RECURSIVE nlargest(_, _)
nlargest(n, rows) ==
    IF n = 0 \/ rows = <<>> THEN <<>>
    ELSE LET top == Max({Amount(rows[i]) : i \in 1..Len(rows)})
             i == Min({j \in 1..Len(rows) : Amount(rows[j]) = top})
         IN  <<rows[i]>> \o nlargest(n - 1, Without(rows, i))

top_n == 10      \* lines 218, 220

top_transactions(rows) ==
    IF Len(rows) >= top_n
    THEN [produced |-> TRUE, rows |-> nlargest(top_n, rows)]
    ELSE NoTable

(***************************************************************************)
(* DataFrame.corr(): Pearson, min_periods=1.  An entry is the fraction     *)
(* cov / sqrt(var) scaled by n^2, or NaN when there are too few rows or a  *)
(* column has no spread.  pandas computes one triangle and mirrors it.     *)
(***************************************************************************)
corr_columns == <<"expenditure", "month_num", "day_num", "weekday">>

Column(rows, c) ==
    Tuple([i \in 1..Len(rows) |->
             CASE c = "expenditure" -> Amount(rows[i])
               [] c = "month_num" -> month_num(Day(rows[i]))
               [] c = "day_num" -> day_num(Day(rows[i]))
               [] c = "weekday" -> weekday(Day(rows[i]))])

Products(x, y) == Tuple([i \in 1..Len(x) |-> x[i] * y[i]])

\* One entry from the sums of the two columns: n rows, sums sx and sy, sums of
\* squares sxx and syy, sum of products sxy.
nancorr(n, sx, sy, sxx, syy, sxy) ==
    LET cov == n * sxy - sx * sy
        vx == n * sxx - sx * sx
        vy == n * syy - sy * sy
    IN  IF n < min_periods \/ vx * vy = 0
        THEN [nan |-> TRUE, cov |-> 0, var |-> 0]
        ELSE [nan |-> FALSE, cov |-> cov, var |-> vx * vy]

\* The entries at or below the diagonal, by column position.
corr_triangle(rows) ==
    LET width == Len(corr_columns)
        columns == Tuple([i \in 1..width |-> Column(rows, corr_columns[i])])
        sum == Tuple([i \in 1..width |-> SumSeq(columns[i])])
        dot == Tuple([i \in 1..width |->
                  Tuple([j \in 1..i |-> SumSeq(Products(columns[i], columns[j]))])])
    IN  Tuple([i \in 1..width |->
            Tuple([j \in 1..i |->
                nancorr(Len(rows), sum[i], sum[j], dot[i][i], dot[j][j],
                        dot[i][j])])])

Position(c) == CHOOSE i \in 1..Len(corr_columns) : corr_columns[i] = c

corr_data(rows) ==
    LET triangle == corr_triangle(rows)
    IN  [a \in Range(corr_columns), b \in Range(corr_columns) |->
            IF Position(a) >= Position(b)
            THEN triangle[Position(a)][Position(b)]
            ELSE triangle[Position(b)][Position(a)]]

(***************************************************************************)
(* analyze_transactions(csv_path).  A result is what the call returned or  *)
(* the exception that left it, with the frame it read (raw) and the frame  *)
(* it kept after cleaning (df).                                            *)
(***************************************************************************)
Message(text) == [text |-> text]

Raised(error, key) ==
    [status |-> "raised", error |-> error, key |-> key,
     summary |-> Message(""), charts |-> <<>>, insights |-> <<>>]

Call(frame, kept, value) == [raw |-> frame, df |-> kept, ret |-> value]

\* plt.pie (line 122) rejects a negative wedge; when every wedge is zero the
\* normalisation divides by zero and the rendering may or may not survive.
pie_outcomes(rows) ==
    LET share == category_sum(rows)
    IN  IF \E i \in 1..Len(share) : share[i].expenditure < 0 THEN {"raises"}
        ELSE IF \A i \in 1..Len(share) : share[i].expenditure = 0
             THEN {"raises", "draws"}
             ELSE {"draws"}

charts_of(pivot, daily, top) ==
    <<"category_bar", "monthly_trend", "category_pie", "histogram", "box", "violin">>
    \o (IF pivot.produced THEN <<"day_category_heatmap">> ELSE <<>>)
    \o (IF daily.produced THEN <<"moving_average">> ELSE <<>>)
    \o (IF top.produced THEN <<"top_transactions">> ELSE <<>>)
    \o <<"correlation", "day_of_month", "category_counts", "category_mean",
         "cumulative">>

statistics(rows) ==
    LET spent == Amounts(rows)
    IN  [total_spent |-> SumSeq(spent),
         avg_spent |-> [num |-> SumSeq(spent), den |-> Len(rows)],
         max_spent |-> Max(Range(spent)),
         min_spent |-> Min(Range(spent)),
         top_cat |-> idxmax(category_sum(rows)),
         transaction_count |-> Len(rows)]

analyze_transactions(src, pie) ==
    LET frame == read_csv(src)
        missing == expected_cols \ frame.columns
        kept == dropna(frame)
        rows == kept.rows
        pivot == day_category(rows)
        daily == daily_spending(rows)
        top == top_transactions(rows)
    IN  IF read_csv_error(src) # "none"
        THEN Call(NoFrame, NoFrame, Raised(read_csv_error(src), ""))          \* line 17
        ELSE IF empty(frame)
        THEN Call(frame, NoFrame,                                             \* line 19
                  [status |-> "empty",
                   summary |-> Message("No transactions available yet."),
                   charts |-> <<>>])
        ELSE IF missing # {}
        THEN Call(frame, NoFrame,                                             \* line 25
                  [status |-> "schema", summary |-> Message("Missing columns"),
                   missing |-> missing, charts |-> <<>>])
        ELSE IF rows # <<>> /\ frame.dtype = "object"
        THEN Call(frame, kept, Raised("TypeError", "expenditure"))            \* line 45
        ELSE IF GroupKeys(rows) = <<>>
        THEN Call(frame, kept, Raised("ValueError", "idxmax"))                \* line 50
        ELSE IF pie = "raises"
        THEN Call(frame, kept, Raised("ValueError", "pie"))                   \* line 122
        ELSE Call(frame, kept,
                  [status |-> "ok",
                   summary |-> [text |-> "statistics", stats |-> statistics(rows)],
                   stats |-> statistics(rows),
                   charts |-> charts_of(pivot, daily, top),
                   category_totals |-> category_totals(rows),
                   monthly_data |-> monthly_data(rows),
                   day_category |-> pivot,
                   daily_spending |-> daily,
                   top_transactions |-> top,
                   corr_data |-> corr_data(rows),
                   category_counts |-> category_counts(rows)])

(***************************************************************************)
(* get_spending_insights(csv_path)                                         *)
(***************************************************************************)
\* Series.mode()[0]: the most frequent value; mode() returns its ties sorted
mode_first_encountered(rows) ==
    LET keys == GroupKeys(rows)
        most == Max({Len(GroupRows(rows, keys[i])) : i \in 1..Len(keys)})
        first == Min({j \in 1..Len(rows) :
                        /\ rows[j].category # NaN
                        /\ Len(GroupRows(rows, rows[j].category)) = most})
    IN  rows[first].category

mode(rows) ==
    LET keys == GroupKeys(rows)
        most == Max({Len(GroupRows(rows, keys[i])) : i \in 1..Len(keys)})
        i == Min({j \in 1..Len(keys) : Len(GroupRows(rows, keys[j])) = most})
    IN  keys[i]

\* df.loc[df['expenditure'].idxmax(), 'product_name']
max_product(rows) ==
    LET top == Max(Range(Amounts(rows)))
        i == Min({j \in 1..Len(rows) : Amount(rows[j]) = top})
    IN  rows[i].product_name

insights_of(rows) ==
    LET monthly == monthly_data(rows)
        freq == mode(rows)
    IN  <<[kind |-> "top_category", category |-> idxmax(category_sum(rows)),
           amount |-> Max({category_sum(rows)[i].expenditure :
                              i \in 1..Len(category_sum(rows))})],
          [kind |-> "average", num |-> SumSeq(Amounts(rows)), den |-> Len(rows)],
          [kind |-> "max_purchase", product |-> max_product(rows),
           amount |-> Max(Range(Amounts(rows)))]>>
        \o (IF Len(monthly) > 1
            THEN <<[kind |-> "trend",
                    label |-> IF monthly[Len(monthly)].expenditure > monthly[1].expenditure
                              THEN "increasing" ELSE "decreasing"]>>
            ELSE <<>>)
        \o <<[kind |-> "frequent", category |-> freq,
              count |-> Len(GroupRows(rows, freq))]>>

get_spending_insights(src) ==
    LET frame == read_csv(src)
        kept == dropna(frame)
        rows == kept.rows
    IN  IF read_csv_error(src) # "none"
        THEN Call(NoFrame, NoFrame, Raised(read_csv_error(src), ""))          \* line 340
        ELSE IF empty(frame)
        THEN Call(frame, NoFrame, [status |-> "ok", insights |-> <<>>])       \* line 342
        ELSE IF "date_added" \notin frame.columns
        THEN Call(frame, NoFrame, Raised("KeyError", "date_added"))           \* line 344
        ELSE IF "expenditure" \notin frame.columns
        THEN Call(frame, NoFrame, Raised("KeyError", "expenditure"))          \* line 345
        ELSE IF "category" \notin frame.columns
        THEN Call(frame, kept, Raised("KeyError", "category"))                \* line 350
        ELSE IF rows # <<>> /\ frame.dtype = "object"
        THEN Call(frame, kept, Raised("TypeError", "expenditure"))            \* line 350
        ELSE IF GroupKeys(rows) = <<>>
        THEN Call(frame, kept, Raised("ValueError", "idxmax"))                \* line 350
        ELSE IF "product_name" \notin frame.columns
        THEN Call(frame, kept, Raised("KeyError", "product_name"))            \* line 360
        ELSE Call(frame, kept, [status |-> "ok", insights |-> insights_of(rows)])

(***************************************************************************)
(* visualize(request): the report view.  It reads the file three times: in *)
(* analyze_transactions (line 98), in get_spending_insights (line 101) and *)
(* for the statistics of the template (line 104).  render is the view from *)
(* line 98 on, given what the two calls returned and the file as the third *)
(* read finds it; visualize is the request that nothing interleaves with.  *)
(***************************************************************************)
top_n_view == 5      \* line 131: df.nlargest(5, 'expenditure')

NoData(summary) ==
    [status |-> "rendered", summary |-> Message(summary), charts |-> <<>>,
     insights |-> <<>>, has_data |-> FALSE, top_transactions |-> <<>>]

Handled_reraises(error) ==
    CASE error = "FileNotFoundError" -> NoData("Transaction file not found")
      [] error = "EmptyDataError" -> NoData("The file is empty")
      [] OTHER -> Raised(error, "")

Handled(error) ==
    CASE error = "FileNotFoundError" -> NoData("Transaction file not found")   \* line 180
      [] error = "EmptyDataError" -> NoData("The file is empty")               \* line 187
      [] OTHER -> NoData("Error analyzing transactions")                       \* line 194

\* The exception lines 107-135 raise on the frame of the third read.
template_error(frame) ==
    LET rows == dropna(frame).rows
    IN  IF "date_added" \notin frame.columns THEN "KeyError"                   \* line 108
        ELSE IF "expenditure" \notin frame.columns THEN "KeyError"             \* line 109
        ELSE IF rows # <<>> /\ frame.dtype = "object" THEN "TypeError"         \* line 112
        ELSE IF "category" \notin frame.columns THEN "KeyError"                \* line 120
        ELSE IF GroupKeys(rows) = <<>> THEN "ValueError"                       \* line 124
        ELSE IF "product_name" \notin frame.columns THEN "KeyError"            \* line 131
        ELSE "none"

render(analysis, found, src) ==
    LET frame == read_csv(src)
        kept == dropna(frame)
    IN  IF analysis.ret.status = "raised"
        THEN Call(analysis.raw, analysis.df, Handled(analysis.ret.error))        \* line 98
        ELSE IF found.ret.status = "raised"
        THEN Call(found.raw, found.df, Handled(found.ret.error))                 \* line 101
        ELSE IF read_csv_error(src) # "none"
        THEN Call(NoFrame, NoFrame, Handled(read_csv_error(src)))                \* line 104
        ELSE IF empty(frame)
        THEN Call(frame, NoFrame,                                                \* line 138
                  [status |-> "rendered",
                   summary |-> analysis.ret.summary,
                   charts |-> analysis.ret.charts,
                   insights |-> found.ret.insights,
                   has_data |-> FALSE,
                   top_transactions |-> <<>>])
        ELSE IF template_error(frame) # "none"
        THEN Call(frame, kept, Handled(template_error(frame)))                   \* line 107
        ELSE Call(frame, kept,
                  [status |-> "rendered",
                   summary |-> analysis.ret.summary,
                   charts |-> analysis.ret.charts,
                   insights |-> found.ret.insights,
                   has_data |-> TRUE,
                   total_spent |-> SumSeq(Amounts(kept.rows)),
                   transaction_count |-> Len(kept.rows),
                   category_totals |-> category_totals(kept.rows),
                   category_counts |-> category_counts(kept.rows),
                   top_category |-> idxmax(category_sum(kept.rows)),
                   most_frequent_category |-> mode(kept.rows),
                   top_transactions |-> nlargest(top_n_view, kept.rows),
                   monthly_totals |-> monthly_data(kept.rows)])

visualize(src, pie) ==
    IF src.state = "missing"
    THEN Call(NoFrame, NoFrame, NoData("No transaction data available yet"))     \* line 87
    ELSE render(analyze_transactions(src, pie), get_spending_insights(src), src)

(***************************************************************************)
(* home(request), POST with a valid form: the record is appended to the    *)
(* file, which is created with its header when it does not exist.          *)
(***************************************************************************)
fields_written == 4      \* lines 35-40: the four fields of a written row

Missing == [state |-> "missing", columns |-> {}, rows |-> <<>>, fields |-> 0,
            ragged |-> FALSE]
ZeroByte == [state |-> "zero_byte", columns |-> {}, rows |-> <<>>, fields |-> 0,
             ragged |-> FALSE]
Csv(columns, rows, fields) ==
    [state |-> "csv", columns |-> columns, rows |-> rows, fields |-> fields,
     ragged |-> FALSE]

Written(form, when) ==
    [product_name |-> form.product_name,
     category |-> form.category,
     expenditure |-> Num(form.expenditure),
     date_added |-> Date(when)]

\* The file after the append.  A row appended to a file without a header line
\* becomes its header; a row of four fields after rows of another width makes
\* the file unreadable.
appended(src, row) ==
    CASE src.state = "missing" -> Csv(expected_cols, <<row>>, fields_written)
      [] src.state = "zero_byte" -> Csv({}, <<>>, 0)
      [] OTHER ->
            [src EXCEPT !.rows = Append(@, row),
                        !.fields = fields_written,
                        !.ragged = @ \/ (src.rows # <<>> /\ src.fields # fields_written)]

\* form.save(): the row of the table, with the next value of the id sequence
saved(form, when) ==
    [id |-> db.last_id + 1,
     product_name |-> form.product_name,
     category |-> form.category,
     expenditure |-> form.expenditure,
     date_added |-> when]

home(form, elapsed) ==
    /\ now' = now + elapsed
    /\ db' = [last_id |-> db.last_id + 1,
              rows |-> Append(db.rows, saved(form, now + elapsed))]
    /\ source' = appended(source, Written(form, now + elapsed))
    /\ call' = "home"
    /\ raw' = NoFrame
    /\ df' = NoFrame
    /\ ret' = [status |-> "redirect"]
    /\ UNCHANGED <<build, request>>

(***************************************************************************)
(* delete_transaction(request, transaction_id), POST: the object is        *)
(* deleted, then the file is read, filtered on product_name and written    *)
(* back.  read_csv infers the type of the product_name column: a name in   *)
(* na_values is read as NaN, and a column of nothing but numbers and NaN   *)
(* is numeric; neither compares equal to the name of the object, a string. *)
(***************************************************************************)
Numerals == {"7", "7.0"}            \* the names of the model that parse as numbers
FloatLiterals == {"7.0"}
FloatText == [t \in Numerals |-> "7.0"]    \* to_csv of the float a numeral reads as

NameDtype(rows) ==
    LET names == {rows[i].product_name : i \in 1..Len(rows)}
    IN  IF rows = <<>> \/ ~(names \subseteq (Numerals \cup na_values)) THEN "object"
        ELSE IF names \cap (FloatLiterals \cup na_values) # {} THEN "float64"
        ELSE "int64"

\* line 222: df[df['product_name'] != transaction.product_name]
without_first_product(rows, name) ==
    LET hits == {i \in 1..Len(rows) : rows[i].product_name = name}
    IN  IF hits = {} THEN rows ELSE Without(rows, Min(hits))

without_product(rows, name) ==
    LET dtype == NameDtype(rows)
    IN  SelectSeq(rows, LAMBDA r : \/ dtype # "object"
                                   \/ r.product_name \in na_values
                                   \/ r.product_name # name)

\* line 223: df.to_csv(csv_path, index=False) of rows read under that dtype
to_csv(src, dtype, rows) ==
    [src EXCEPT
        !.rows = Tuple([i \in 1..Len(rows) |->
                          [rows[i] EXCEPT !.product_name =
                              IF @ \in na_values THEN ""
                              ELSE IF dtype = "float64" THEN FloatText[@]
                              ELSE @]]),
        !.fields = IF rows = <<>> THEN 0 ELSE Cardinality(src.columns)]

Redirect(message) == [status |-> "redirect", message |-> message]

delete_transaction(transaction_id) ==
    LET found == {i \in 1..Len(db.rows) : db.rows[i].id = transaction_id}
        transaction == db.rows[CHOOSE i \in found : TRUE]
        failed == IF read_csv_error(source) # "none" THEN read_csv_error(source)
                  ELSE IF "product_name" \notin source.columns THEN "KeyError"
                  ELSE "none"
    IN  /\ call' = "delete_transaction"
        /\ raw' = NoFrame
        /\ df' = NoFrame
        /\ UNCHANGED <<now, build, request>>
        /\ IF found = {}
           THEN /\ ret' = Redirect("Transaction not found!")                  \* line 227
                /\ UNCHANGED <<db, source>>
           ELSE /\ db' = [db EXCEPT !.rows =                                  \* line 214
                            SelectSeq(@, LAMBDA r : r.id # transaction_id)]
                /\ IF source.state = "missing"                                \* line 218
                   THEN /\ ret' = Redirect("Transaction deleted successfully!")
                        /\ UNCHANGED source
                   ELSE IF failed # "none"                                    \* line 229
                   THEN /\ ret' = Redirect("Error deleting transaction")
                        /\ UNCHANGED source
                   ELSE /\ ret' = Redirect("Transaction deleted successfully!")
                        /\ source' = to_csv(source, NameDtype(source.rows),
                                            without_product(source.rows,
                                                            transaction.product_name))

(***************************************************************************)
(* clear_all_data(request), POST: every object is deleted and the file, if *)
(* there is one, is truncated to its header.                               *)
(***************************************************************************)
clear_all_data ==
    /\ db' = [db EXCEPT !.rows = <<>>]                                        \* line 267
    /\ source' = IF source.state = "missing" THEN source                      \* line 271
                 ELSE Csv(expected_cols, <<>>, 0)
    /\ call' = "clear_all_data"
    /\ raw' = NoFrame
    /\ df' = NoFrame
    /\ ret' = Redirect("All transactions cleared successfully!")
    /\ UNCHANGED <<now, build, request>>

(***************************************************************************)
(* The steps of the model.                                                 *)
(***************************************************************************)
Home(forms, gaps, limit) ==
    \E form \in forms, elapsed \in gaps :
        /\ Len(source.rows) < limit
        /\ home(form, elapsed)

DeleteTransaction ==
    \E transaction_id \in 1..(db.last_id + 1) : delete_transaction(transaction_id)

ClearAllData == clear_all_data

Returns(name, value) ==
    \E result \in {value} :
        /\ call' = name
        /\ raw' = result.raw
        /\ df' = result.df
        /\ ret' = result.ret
        /\ UNCHANGED <<source, now, build, db>>

\* The pie of this installation: line 122 on the cleaned rows of the file.
pies_of_any_build(src) ==
    IF read_csv_error(src) = "none" /\ expected_cols \subseteq src.columns
    THEN pie_outcomes(dropna(read_csv(src)).rows)
    ELSE {"draws"}

pies(src) ==
    LET outcomes == IF read_csv_error(src) = "none" /\ expected_cols \subseteq src.columns
                    THEN pie_outcomes(dropna(read_csv(src)).rows)
                    ELSE {"draws"}
    IN  IF build \in outcomes THEN {build} ELSE outcomes

AnalyzeTransactions ==
    \E pie \in pies(source) :
        /\ Returns("analyze_transactions", analyze_transactions(source, pie))
        /\ UNCHANGED request

GetSpendingInsights ==
    /\ Returns("get_spending_insights", get_spending_insights(source))
    /\ UNCHANGED request

Visualize ==
    \E pie \in pies(source) :
        /\ Returns("visualize", visualize(source, pie))
        /\ UNCHANGED request

(***************************************************************************)
(* The report request under concurrent requests: each read of the file is  *)
(* a step, and form submissions, deletes and clears of other requests run  *)
(* between the steps.  request keeps the results so far and the file as    *)
(* each read found it.                                                     *)
(***************************************************************************)
NoCall == Call(NoFrame, NoFrame, [status |-> "none"])

NoRequest == [pc |-> "idle", reads |-> <<>>, analysis |-> NoCall, found |-> NoCall]

Responds(result, reads) ==
    /\ Returns("visualize", result)
    /\ request' = [NoRequest EXCEPT !.reads = reads]

\* lines 84-98: isfile, then analyze_transactions
VisualizeAnalysis ==
    /\ request.pc = "idle"
    /\ IF source.state = "missing"
       THEN Responds(visualize(source, "draws"), <<>>)
       ELSE \E pie \in pies(source) :
              LET analysis == analyze_transactions(source, pie)
              IN  IF analysis.ret.status = "raised"
                  THEN Responds(render(analysis, NoCall, source), <<source>>)
                  ELSE /\ request' = [pc |-> "insights", reads |-> <<source>>,
                                      analysis |-> analysis, found |-> NoCall]
                       /\ UNCHANGED <<source, now, call, raw, df, ret, build, db>>

\* line 101: get_spending_insights
VisualizeInsights ==
    /\ request.pc = "insights"
    /\ LET found == get_spending_insights(source)
           reads == Append(request.reads, source)
       IN  IF found.ret.status = "raised"
           THEN Responds(render(request.analysis, found, source), reads)
           ELSE /\ request' = [request EXCEPT !.pc = "template", !.reads = reads,
                                              !.found = found]
                /\ UNCHANGED <<source, now, call, raw, df, ret, build, db>>

\* lines 104-203: the third read, the statistics of the template, the response
VisualizeTemplate ==
    /\ request.pc = "template"
    /\ Responds(render(request.analysis, request.found, source),
                Append(request.reads, source))

(***************************************************************************)
(* Files found on disk: absent, zero bytes, a header lacking columns with  *)
(* or without a row, and files of rows as manual entry leaves them.        *)
(***************************************************************************)
DiskRows ==
    [product_name : {"tea"},
     category : {"Food", NaN},
     expenditure : {Num(1), MissingAmount, TextAmount},
     date_added : {Date(0), BadDate}]

CleanRow == [product_name |-> "tea", category |-> "Food",
             expenditure |-> Num(1), date_added |-> Date(0)]

SeqsUpTo(S, n) == UNION {[1..k -> S] : k \in 0..n}

DiskFiles ==
    {Missing, ZeroByte}
    \cup {Csv(cols, <<>>, 0) : cols \in SUBSET expected_cols}
    \cup {Csv(cols, <<CleanRow>>, Cardinality(cols)) :
             cols \in (SUBSET expected_cols) \ {{}, expected_cols}}
    \cup {Csv(expected_cols, rows, fields_written) :
             rows \in SeqsUpTo(DiskRows, MaxInitRows) \ {<<>>}}

Builds == {"raises", "draws"}

Idle ==
    /\ now = 0
    /\ call = "none"
    /\ raw = NoFrame
    /\ df = NoFrame
    /\ ret = [status |-> "none"]
    /\ build \in Builds
    /\ db = [last_id |-> 0, rows |-> <<>>]
    /\ request = NoRequest

\* Spec: any file on disk, then form submissions and reports.
Forms == [product_name : {"rent"}, category : {"Rent"}, expenditure : {2}]
Gaps == {0, 1}

Init == source \in DiskFiles /\ Idle

Next ==
    \/ Home(Forms, Gaps, MaxRows)
    \/ AnalyzeTransactions
    \/ GetSpendingInsights
    \/ Visualize

\* SpecMonths: a fresh installation; purchases and refunds weeks apart.
MonthForms == [product_name : {"tea"}, category : {"Food"}, expenditure : {-1, 2}]
MonthGaps == {0, 20}

InitFresh == source = Missing /\ Idle

NextMonths ==
    \/ Home(MonthForms, MonthGaps, MaxMonthRows)
    \/ AnalyzeTransactions

SpecMonths == InitFresh /\ [][NextMonths]_vars

\* SpecDays: a fresh installation; purchases on the same or the next day.
DayForms == [product_name : {"tea"}, category : {"Food"}, expenditure : {1}]
DayGaps == {0, 1}

NextDays ==
    \/ Home(DayForms, DayGaps, MaxDayRows)
    \/ AnalyzeTransactions

SpecDays == InitFresh /\ [][NextDays]_vars

\* SpecTop: a fresh installation; purchases of two amounts on one day.
TopForms == [product_name : {"tea"}, category : {"Food"}, expenditure : {1, 2}]
TopGaps == {0}

NextTop ==
    \/ Home(TopForms, TopGaps, MaxTopRows)
    \/ AnalyzeTransactions
    \/ Visualize

\* Every amount is positive: no pie of zero wedges is drawn, whatever the build.
InitTop == InitFresh /\ build = "draws"

SpecTop == InitTop /\ [][NextTop]_vars

\* SpecInsights: a fresh installation; purchases and refunds in two categories,
\* on the same day or weeks apart, and every report on them.
InsightForms ==
    [product_name : {"tea"}, category : {"Food", "Rent"}, expenditure : {-1, 1}]
InsightGaps == {0, 20}

NextInsights ==
    \/ Home(InsightForms, InsightGaps, MaxInsightRows)
    \/ AnalyzeTransactions
    \/ GetSpendingInsights
    \/ Visualize

SpecInsights == InitFresh /\ [][NextInsights]_vars

\* SpecMirror: no file, a zero-byte file or a header; records are added under
\* names that read_csv reads back as text, as missing and as a number, and
\* records are deleted and cleared.
MirrorForms ==
    [product_name : {"tea", "NA", "7"}, category : {"Food"}, expenditure : {1}]
MirrorGaps == {0}

InitMirror == source \in {Missing, ZeroByte, Csv(expected_cols, <<>>, 0)} /\ Idle

NextMirror ==
    \/ (db.last_id < MaxIds /\ Home(MirrorForms, MirrorGaps, MaxMirrorRows))
    \/ DeleteTransaction
    \/ ClearAllData

SpecMirror == InitMirror /\ [][NextMirror]_vars

\* SpecRace: a report request whose reads interleave with other requests.
RaceForms == [product_name : {"tea"}, category : {"Food"}, expenditure : {1}]
RaceGaps == {0}

NextRace ==
    \/ (db.last_id < MaxIds /\ Home(RaceForms, RaceGaps, MaxRaceRows))
    \/ DeleteTransaction
    \/ ClearAllData
    \/ VisualizeAnalysis
    \/ VisualizeInsights
    \/ VisualizeTemplate

SpecRace == InitFresh /\ [][NextRace]_vars

Spec == Init /\ [][Next]_vars

(***************************************************************************)
(* The claims.  In a state whose last call is an analysis the file is      *)
(* still the one that call read: only home, delete_transaction and         *)
(* clear_all_data change it, and each of them is then the last call.       *)
(***************************************************************************)
Readable(src) == src.state = "csv" /\ ~src.ragged

\* A usable record: a parseable date and a present, numeric expenditure.
Usable(r) == r.date_added.kind = "date" /\ r.expenditure.kind = "num"

\* Every row is dropped by cleaning: unparseable date or missing expenditure.
AllDropped(rows) ==
    \A i \in 1..Len(rows) :
        rows[i].date_added.kind # "date" \/ rows[i].expenditure.kind = "na"

NoUsableRecords(src) ==
    /\ Readable(src)
    /\ \/ src.rows = <<>>
       \/ expected_cols \subseteq src.columns /\ AllDropped(src.rows)

\* C1: a source with zero records, or whose rows are all dropped by cleaning,
\* makes analyze_transactions return the 'no data' message without charts and
\* get_spending_insights return the empty list; neither raises.
C1_NoUsableRecordsGiveEmptyResult ==
    NoUsableRecords(source) =>
        /\ call = "analyze_transactions" =>
              ret.status = "empty" /\ ret.charts = <<>>
        /\ call = "get_spending_insights" =>
              ret.status = "ok" /\ ret.insights = <<>>

LacksFields(src) ==
    Readable(src) /\ src.rows # <<>> /\ expected_cols \ src.columns # {}

\* The fields an error result names.
NamedFields(result) ==
    CASE result.status = "schema" -> result.missing
      [] result.status = "raised" /\ result.error = "KeyError" -> {result.key}
      [] OTHER -> {}

\* C2: on a non-empty source lacking required fields both analyze_transactions
\* and get_spending_insights end in a schema error that names every missing
\* field, and produce nothing.
C2_SchemaErrorNamesEveryMissingField ==
    (LacksFields(source) /\ call \in {"analyze_transactions", "get_spending_insights"}) =>
        /\ ret.status \in {"schema", "raised"}
        /\ NamedFields(ret) = expected_cols \ source.columns
        /\ df = NoFrame

HasSchema(src) == Readable(src) /\ src.rows # <<>> /\ expected_cols \subseteq src.columns

\* C3: cleaning keeps exactly the rows with a parseable date and a present,
\* numeric expenditure, in their order, and the statistics are those of the
\* kept rows.
C3_CleaningKeepsExactlyUsableRows ==
    (HasSchema(source) /\ call = "analyze_transactions") =>
        LET usable == SelectSeq(raw.rows, Usable)
        IN  /\ df.rows = usable
            /\ ret.status = "ok" =>
                  /\ ret.stats.transaction_count = Len(usable)
                  /\ ret.stats.total_spent = SumSeq(Amounts(usable))

RECURSIVE SumOver(_, _)
SumOver(f, S) ==
    IF S = {} THEN 0
    ELSE LET x == CHOOSE y \in S : TRUE IN f[x] + SumOver(f, S \ {x})

CategoriesOf(rows) == {rows[i].category : i \in 1..Len(rows)}
AmountOf(rows, c) == SumSeq(Amounts(SelectSeq(rows, LAMBDA r : r.category = c)))
CountOf(rows, c) == Len(SelectSeq(rows, LAMBDA r : r.category = c))

\* C4: the category totals map each category of the cleaned dataset to the sum
\* of its records and the counts to their number; the totals add up to the
\* total spending, the counts to the transaction count, and the top category
\* has the largest total.
C4_CategoryTablesPartitionTheDataset ==
    (call = "analyze_transactions" /\ ret.status = "ok") =>
        LET totals == ret.category_totals
            counts == ret.category_counts
        IN  /\ DOMAIN totals = CategoriesOf(df.rows)
            /\ DOMAIN counts = CategoriesOf(df.rows)
            /\ \A c \in DOMAIN totals : totals[c] = AmountOf(df.rows, c)
            /\ \A c \in DOMAIN counts : counts[c] = CountOf(df.rows, c)
            /\ SumOver(totals, DOMAIN totals) = ret.stats.total_spent
            /\ SumOver(counts, DOMAIN counts) = ret.stats.transaction_count
            /\ ret.stats.top_cat \in DOMAIN totals
            /\ \A c \in DOMAIN totals : totals[c] <= totals[ret.stats.top_cat]

\* The categories and weekdays the records of a dataset have; a record whose
\* category is missing has none.
DistinctCategories(rows) == CategoriesOf(rows) \ {NaN}
DistinctDays(rows) == {day_name(Day(rows[i])) : i \in 1..Len(rows)}

\* C8: the day-of-week x category pivot is produced exactly when the cleaned
\* dataset has more than one weekday and more than one category; its rows are
\* the weekdays of the data from Monday to Sunday, and it is never a table of
\* one column.
C8_PivotOnlyForSeveralDaysAndCategories ==
    (call = "analyze_transactions" /\ ret.status = "ok") =>
        LET pivot == ret.day_category
        IN  /\ pivot.produced <=>
                  /\ Cardinality(DistinctDays(df.rows)) > 1
                  /\ Cardinality(DistinctCategories(df.rows)) > 1
            /\ pivot.produced =>
                  /\ pivot.index = SelectSeq(day_order, LAMBDA d : d \in DistinctDays(df.rows))
                  /\ Len(pivot.columns) > 1

\* An entry of the correlation matrix that equals 1.
IsOne(entry) == ~entry.nan /\ entry.cov > 0 /\ entry.cov * entry.cov = entry.var

\* C10: for every non-empty cleaned dataset the correlation matrix over
\* (expenditure, month_num, day_num, weekday) is 4x4, symmetric, and has 1 on
\* its diagonal.
C10_CorrelationHasUnitDiagonal ==
    (call = "analyze_transactions" /\ ret.status = "ok") =>
        LET corr == ret.corr_data
            cols == Range(corr_columns)
        IN  /\ DOMAIN corr = cols \X cols
            /\ Cardinality(cols) = Len(corr_columns)
            /\ \A a \in cols, b \in cols : corr[<<a, b>>] = corr[<<b, a>>]
            /\ \A a \in cols : IsOne(corr[<<a, a>>])


Analysed == call = "analyze_transactions" /\ ret.status = "ok"

NonDecreasing(monthly) ==
    \A k \in 1..(Len(monthly) - 1) :
        monthly[k].expenditure_cumsum <= monthly[k + 1].expenditure_cumsum

EndsAtTotal(monthly, total) ==
    monthly # <<>> /\ monthly[Len(monthly)].expenditure_cumsum = total

Chronological(monthly, rows) ==
    /\ \A k \in 1..(Len(monthly) - 1) : monthly[k].month < monthly[k + 1].month
    /\ {monthly[k].month : k \in 1..Len(monthly)}
          = {month_num(Day(rows[i])) : i \in 1..Len(rows)}

\* C5 as stated: for any dataset the monthly cumulative sum, in chronological
\* month order, is non-decreasing and its last value is the overall total.
C5_CumulativeSumNonDecreasing ==
    Analysed =>
        /\ Chronological(ret.monthly_data, df.rows)
        /\ NonDecreasing(ret.monthly_data)
        /\ EndsAtTotal(ret.monthly_data, ret.stats.total_spent)

\* C5 as amended: the monthly cumulative sum, in chronological month order,
\* ends at the overall total for every dataset, and is non-decreasing when no
\* month's total is negative (as when no expenditure is negative).
C5_CumulativeSumEndsAtTotal ==
    Analysed =>
        /\ Chronological(ret.monthly_data, df.rows)
        /\ EndsAtTotal(ret.monthly_data, ret.stats.total_spent)
        /\ (\A k \in 1..Len(ret.monthly_data) : ret.monthly_data[k].expenditure >= 0)
              => NonDecreasing(ret.monthly_data)

C5_Witness ==
    /\ Analysed
    /\ Len(ret.monthly_data) >= 3
    /\ \A k \in 1..Len(ret.monthly_data) : ret.monthly_data[k].expenditure >= 0
    /\ \E i \in 1..Len(df.rows) : Amount(df.rows[i]) < 0

RECURSIVE SumFromTo(_, _, _)
SumFromTo(x, lo, hi) == IF lo > hi THEN 0 ELSE x[lo] + SumFromTo(x, lo + 1, hi)

TrailingMean(x, i) ==
    LET lo == IF i - 6 > 1 THEN i - 6 ELSE 1
    IN  [nan |-> FALSE, num |-> SumFromTo(x, lo, i), den |-> i - lo + 1]

\* C6: the daily-totals table has one entry per distinct date in date order,
\* and its moving average at position i is the mean of the daily totals at
\* positions max(0, i-6)..i, partial windows included and never undefined;
\* daily totals [10, 20, 30] give [10, 15, 20].
C6_MovingAverageIsTrailingMean ==
    /\ rolling_mean(<<10, 20, 30>>)
          = <<[nan |-> FALSE, num |-> 10, den |-> 1],
              [nan |-> FALSE, num |-> 30, den |-> 2],
              [nan |-> FALSE, num |-> 60, den |-> 3]>>
    /\ (Analysed /\ ret.daily_spending.produced) =>
          LET daily == ret.daily_spending.rows
              totals == [k \in 1..Len(daily) |-> daily[k].expenditure]
          IN  /\ \A k \in 1..(Len(daily) - 1) : daily[k].date < daily[k + 1].date
              /\ {daily[k].date : k \in 1..Len(daily)}
                    = {Day(df.rows[i]) : i \in 1..Len(df.rows)}
              /\ \A k \in 1..Len(daily) :
                    /\ daily[k].expenditure =
                          SumSeq(Amounts(SelectSeq(df.rows,
                              LAMBDA r : Day(r) = daily[k].date)))
                    /\ daily[k].ma_7 = TrailingMean(totals, k)

C6_Witness ==
    /\ Analysed
    /\ ret.daily_spending.produced
    /\ Len(ret.daily_spending.rows) > window
    /\ \E k \in 1..Len(ret.daily_spending.rows) :
          ret.daily_spending.rows[k].expenditure > 1

DistinctDates(rows) == {Day(rows[i]) : i \in 1..Len(rows)}

\* C7 as stated: the daily-totals table is produced if and only if the
\* cleaned dataset spans more than 7 distinct days.
C7_MovingAverageIffMoreThanSevenDays ==
    Analysed =>
        (ret.daily_spending.produced <=> Cardinality(DistinctDates(df.rows)) > 7)

\* C7 as amended: the daily-totals table is produced if and only if the
\* analysis completes on a cleaned dataset of more than 7 rows; so it is
\* produced whenever the data spans more than 7 distinct days, and also for
\* more than 7 rows on fewer days.
C7_MovingAverageIffMoreThanSevenRows ==
    call = "analyze_transactions" =>
        /\ "moving_average" \in Range(ret.charts)
              <=> (ret.status = "ok" /\ Len(df.rows) > 7)
        /\ ret.status = "ok" =>
              /\ ret.daily_spending.produced <=> Len(df.rows) > 7
              /\ Cardinality(DistinctDates(df.rows)) > 7 => ret.daily_spending.produced

C7_Witness ==
    /\ Analysed
    /\ ret.daily_spending.produced
    /\ Cardinality(DistinctDates(df.rows)) <= 7

\* table holds exactly the n rows of largest expenditure of rows, descending,
\* equal expenditures in record order.
IsTopN(table, rows, n) ==
    /\ Len(table) = n
    /\ \A k \in 1..Len(table) : \E i \in 1..Len(rows) : rows[i] = table[k]
    /\ \A k \in 1..(Len(table) - 1) :
          \/ Amount(table[k]) > Amount(table[k + 1])
          \/ Amount(table[k]) = Amount(table[k + 1])
             /\ table[k].index < table[k + 1].index
    /\ \A i \in 1..Len(rows) :
          (\A k \in 1..Len(table) : table[k] # rows[i]) =>
              \A k \in 1..Len(table) :
                  \/ Amount(rows[i]) < Amount(table[k])
                  \/ Amount(rows[i]) = Amount(table[k])
                     /\ rows[i].index > table[k].index

Reported == call = "visualize" /\ ret.has_data

TopTenOnlyFromTenRows ==
    (Analysed /\ ret.top_transactions.produced) =>
        /\ Len(df.rows) >= 10
        /\ IsTopN(ret.top_transactions.rows, df.rows, 10)

\* C9 as stated: a top-N table (N=10 in analyze_transactions, N=5 in the
\* visualize view) is produced only when the cleaned dataset has at least N
\* rows, and then holds exactly the N largest rows, descending, ties in
\* record order.
C9_TopNOnlyFromNRows ==
    /\ TopTenOnlyFromTenRows
    /\ (Reported /\ ret.top_transactions # <<>>) =>
          /\ Len(df.rows) >= 5
          /\ IsTopN(ret.top_transactions, df.rows, 5)

\* C9 as amended: the top-10 table of analyze_transactions is produced only
\* from at least 10 rows and holds exactly the 10 largest rows, descending,
\* ties in record order; the top-5 list of the visualize view is produced for
\* every dataset it reports and holds the min(5, rows) largest rows in that
\* order.
C9_TopTenGatedTopFiveNot ==
    /\ TopTenOnlyFromTenRows
    /\ Reported =>
          IsTopN(ret.top_transactions, df.rows,
                 IF Len(df.rows) < 5 THEN Len(df.rows) ELSE 5)

C9_Witness ==
    /\ Reported
    /\ ret.top_transactions # <<>>
    /\ Len(df.rows) < 5
    /\ \E i \in 1..Len(df.rows), j \in 1..Len(df.rows) :
          i < j /\ Amount(df.rows[i]) = Amount(df.rows[j])

(***************************************************************************)
(* C11: two invocations of the Engine on the same unchanged file return    *)
(* the same thing: when analyze_transactions or get_spending_insights runs *)
(* again on the file the previous call of that function read, its frames   *)
(* and its result (statistics, tables, insights, or the exception) are     *)
(* those of the previous call.                                             *)
(***************************************************************************)
Engine == {"analyze_transactions", "get_spending_insights"}

MonthsOf(rows) == {month_num(Day(rows[i])) : i \in 1..Len(rows)}

MonthTotal(rows, m) ==
    SumSeq(Amounts(SelectSeq(rows, LAMBDA r : month_num(Day(r)) = m)))

Kinds(insights) == [k \in 1..Len(insights) |-> insights[k].kind]

InFixedOrder(insights, rows) ==
    LET months == MonthsOf(rows)
        rising == MonthTotal(rows, Max(months)) > MonthTotal(rows, Min(months))
    IN  IF Cardinality(months) >= 2
        THEN /\ Kinds(insights) = <<"top_category", "average", "max_purchase",
                                    "trend", "frequent">>
             /\ insights[4].label = IF rising THEN "increasing" ELSE "decreasing"
        ELSE Kinds(insights) = <<"top_category", "average", "max_purchase",
                                 "frequent">>

C12_InsightsInFixedOrder ==
    LET cleaned == SelectSeq(source.rows, Usable)
    IN  (call = "get_spending_insights" /\ HasSchema(source) /\ cleaned # <<>>) =>
            /\ ret.status = "ok"
            /\ InFixedOrder(ret.insights, Indexed(cleaned))

(***************************************************************************)
(* C13: which category the most-frequent-category finding reports when     *)
(* several categories tie for the highest transaction count.               *)
(***************************************************************************)
Present(rows) == CategoriesOf(rows) \ {NaN}

Tied(rows) ==
    {c \in Present(rows) : \A d \in Present(rows) : CountOf(rows, d) <= CountOf(rows, c)}

FirstEncountered(rows) ==
    rows[Min({i \in 1..Len(rows) : rows[i].category \in Tied(rows)})].category

\* Categories lists the category names in lexicographic order.
FirstSorted(rows) ==
    Categories[Min({k \in 1..Len(Categories) : Categories[k] \in Tied(rows)})]

Frequent(insights) == insights[Len(insights)]

MostFrequentIs(pick(_)) ==
    /\ (call = "get_spending_insights" /\ ret.status = "ok" /\ ret.insights # <<>>) =>
          /\ Frequent(ret.insights).kind = "frequent"
          /\ Frequent(ret.insights).category = pick(df.rows)
          /\ Frequent(ret.insights).count = CountOf(df.rows, pick(df.rows))
    /\ (call = "visualize" /\ ret.has_data) =>
          ret.most_frequent_category = pick(df.rows)

\* C13 as stated: among tied categories the finding reports the one met first
\* in the original record order, with its transaction count.
C13_TieGoesToFirstEncountered == MostFrequentIs(FirstEncountered)

\* C13 as amended: among tied categories the finding reports the one that is
\* first in sorted (lexicographic) order, whatever the record order, with its
\* transaction count; so does most_frequent_category of the visualize view.
C13_TieGoesToFirstSorted == MostFrequentIs(FirstSorted)

C13_Witness ==
    /\ call = "get_spending_insights"
    /\ ret.status = "ok"
    /\ Cardinality(Tied(df.rows)) >= 2
    /\ FirstEncountered(df.rows) = "Rent"
    /\ Frequent(ret.insights).category = "Food"

(***************************************************************************)
(* C14: whatever the state of the file (missing, zero bytes, header only,  *)
(* a required column missing, every row defective) the visualize view      *)
(* answers with no charts, no insights, has_data false and a summary       *)
(* message; no exception leaves the view; and a request on a file that is  *)
(* present and valid is answered with the report.                          *)
(***************************************************************************)
Degraded(src) ==
    \/ src.state \in {"missing", "zero_byte"}
    \/ Readable(src) /\ src.rows = <<>>
    \/ Readable(src) /\ expected_cols \ src.columns # {}
    \/ HasSchema(src) /\ SelectSeq(src.rows, Usable) = <<>>

Valid(src) ==
    /\ HasSchema(src)
    /\ \A i \in 1..Len(src.rows) :
          /\ Usable(src.rows[i])
          /\ src.rows[i].category # NaN
          /\ src.rows[i].expenditure.val > 0

C14_ViewDegradesToEmptyReport ==
    call = "visualize" =>
        /\ ret.status = "rendered"
        /\ Degraded(source) =>
              /\ ret.charts = <<>>
              /\ ret.insights = <<>>
              /\ ~ret.has_data
              /\ ret.summary.text # ""
        /\ Valid(source) =>
              /\ ret.has_data
              /\ ret.charts # <<>>
              /\ ret.insights # <<>>
              /\ ret.transaction_count = Len(source.rows)

\* The view has answered for a file with the four columns whose rows are all
\* defective: the analysis raised and the handler of line 194 built the answer.
C14_Witness ==
    /\ call = "visualize"
    /\ HasSchema(source)
    /\ SelectSeq(source.rows, Usable) = <<>>
    /\ ret.status = "rendered"
    /\ ~ret.has_data
    /\ ret.summary.text = "Error analyzing transactions"

(***************************************************************************)
(* C15: what delete_transaction removes from the table and from the file.  *)
(* A step is a delete of an existing object when delete_transaction ran    *)
(* and the table changed.                                                  *)
(***************************************************************************)
SameRecords(a, b) ==
    /\ Len(a) = Len(b)
    /\ \A i \in 1..Len(a) :
          /\ a[i].category = b[i].category
          /\ a[i].expenditure = b[i].expenditure
          /\ a[i].date_added = b[i].date_added

\* The rows whose product_name is not the given name.
NotNamed(rows, name) == SelectSeq(rows, LAMBDA r : r.product_name # name)

\* The rows that do not read back as the given name: a cell pandas reads as
\* missing is not a name, and in a column of numbers no cell is a string.
ReadsAsText(rows) ==
    \E i \in 1..Len(rows) : rows[i].product_name \notin (na_values \cup Numerals)

NotNamedOnReadBack(rows, name) ==
    SelectSeq(rows, LAMBDA r : ~(/\ ReadsAsText(rows)
                                 /\ r.product_name \notin na_values
                                 /\ r.product_name = name))

Filterable(src) == Readable(src) /\ "product_name" \in src.columns

DeletesOneObject(k) ==
    /\ call' = "delete_transaction"
    /\ db'.rows = Without(db.rows, k)

Answered == call = "visualize" /\ request.pc = "idle" /\ request.reads # <<>>

C16_ReportFromOneRecordSet ==
    Answered =>
        \E i \in 1..Len(request.reads), pie \in Builds :
            ret = visualize(request.reads[i], pie).ret

=============================================================================
